---------------------------- MODULE Spec2Model ----------------------------
(***************************************************************************)
(* A model of the byte pair encoding tokenizer of                          *)
(* src/llm_tokenizer/.ipynb_checkpoints/BPETokenizer-checkpoint.py:        *)
(* class TokenPair and class Tokenizer (count, get_most_common, swap_top,  *)
(* train, encode, decode, save_to_file, load_from_file).                   *)
(*                                                                         *)
(* Python lists are sequences (index 1 is Python's index 0).  A dict is a  *)
(* function; tcounts, whose iteration order decides max(), is kept as the  *)
(* sequence of its values in insertion order.                              *)
(***************************************************************************)
EXTENDS Integers, Sequences, FiniteSets, TLC

\* ------------------------------------------------------------------ bounds

\* longest training input enumerated exhaustively over Alphabet
MaxLen == 6
\* largest encoding_vocab_size given to the constructor
MaxTarget == 259
\* longest raw sequence given to encode
MaxCodecLen == 4
\* longest symbol sequence (raw and minted ids) given directly to decode
MaxDecLen == 2

\* ids below RawLimit are raw bytes; mint_token starts there (line 28)
RawLimit == 256

\* the raw symbols of the enumerated inputs: "a" and "b"
Alphabet == {97, 98}

\* "aaabdaaabac", the scenario of the specification
ScenarioInput == <<97, 97, 97, 98, 100, 97, 97, 97, 98, 97, 99>>
\* "abaaaabab": (a,b) is learned before (a,a), and "aab" occurs in it
OverlapInput == <<97, 98, 97, 97, 97, 97, 98, 97, 98>>

SeqsUpTo(S, n) == UNION {[1..k -> S] : k \in 0..n}

TrainInputs == SeqsUpTo(Alphabet, MaxLen) \cup {ScenarioInput, OverlapInput}
Targets == RawLimit..MaxTarget

\* ------------------------------------------------------------- TokenPair

TokenPair(first, second) ==
    [first_token |-> first, second_token |-> second, frequency |-> 1]

_key(tp) == <<tp.first_token, tp.second_token>>

\* TokenPair.__lt__
Lt(self, other) == self.frequency < other.frequency

\* ------------------------------------------------------------ dict helpers

EmptyMap == [k \in {} |-> 0]

Put(m, k, v) == [x \in DOMAIN m \cup {k} |-> IF x = k THEN v ELSE m[x]]

\* ----------------------------------------------------------- Tokenizer.count

\* the index of key in the insertion-ordered table, 0 when absent
IndexOf(tc, key) ==
    IF \E j \in DOMAIN tc : _key(tc[j]) = key
    THEN CHOOSE j \in DOMAIN tc : _key(tc[j]) = key
    ELSE 0

\* lines 35-39: the body of the loop of count for the pair tp
CountStep(tc, tp) ==
    LET j == IndexOf(tc, _key(tp))
    IN  IF j # 0
        THEN [tc EXCEPT ![j].frequency = tc[j].frequency + 1]
        ELSE Append(tc, tp)

\* the loop of count from position i on; each iteration binds the table it
\* leaves (t) before the next one starts
RECURSIVE CountFrom(_, _, _)
CountFrom(tokens, i, tc) ==
    IF i >= Len(tokens) THEN tc
    ELSE CHOOSE r \in {CountFrom(tokens, i + 1, t) :
                         t \in {CountStep(tc, TokenPair(tokens[i], tokens[i + 1]))}} :
             TRUE

Count(tokens) == CountFrom(tokens, 1, <<>>)

\* --------------------------------------------------- Tokenizer.get_most_common

\* max() keeps its current best unless the next item compares greater; with
\* only __lt__ defined, item > best is evaluated as best.__lt__(item)
RECURSIVE MaxFrom(_, _, _)
MaxFrom(tc, i, best) ==
    IF i > Len(tc) THEN best
    ELSE CHOOSE r \in {MaxFrom(tc, i + 1, b) :
                         b \in {IF Lt(best, tc[i]) THEN tc[i] ELSE best}} : TRUE

\* max() with the comparison turned round: the last of equal items wins
RECURSIVE MaxLastFrom(_, _, _)
MaxLastFrom(tc, i, best) ==
    IF i > Len(tc) THEN best
    ELSE CHOOSE r \in {MaxLastFrom(tc, i + 1, b) :
                         b \in {IF Lt(tc[i], best) THEN best ELSE tc[i]}} : TRUE

GetMostCommonLast(tc) == MaxLastFrom(tc, 2, tc[1])

GetMostCommon(tc) == MaxFrom(tc, 2, tc[1])

\* ------------------------------------------------------- Tokenizer.swap_top

\* lines 51-60: the left to right rewrite of the pair (a, b) by mint
RECURSIVE RewriteFrom(_, _, _, _, _, _)
RewriteFrom(tokens, a, b, mint, idx, new_encoding) ==
    IF idx < Len(tokens)
    THEN IF a = tokens[idx] /\ b = tokens[idx + 1]
         THEN RewriteFrom(tokens, a, b, mint, idx + 2, Append(new_encoding, mint))
         ELSE RewriteFrom(tokens, a, b, mint, idx + 1,
                          Append(new_encoding, tokens[idx]))
    ELSE IF idx <= Len(tokens) THEN Append(new_encoding, tokens[idx])
         ELSE new_encoding

\* the rewrite with the second half of the pair compared to b mistyped
RECURSIVE RewriteTypoFrom(_, _, _, _, _, _)
RewriteTypoFrom(tokens, a, b, mint, idx, new_encoding) ==
    IF idx < Len(tokens)
    THEN IF a = tokens[idx] /\ b = tokens[idx]
         THEN RewriteTypoFrom(tokens, a, b, mint, idx + 2,
                              Append(new_encoding, mint))
         ELSE RewriteTypoFrom(tokens, a, b, mint, idx + 1,
                              Append(new_encoding, tokens[idx]))
    ELSE IF idx <= Len(tokens) THEN Append(new_encoding, tokens[idx])
         ELSE new_encoding

RewriteTypo(tokens, a, b, mint) == RewriteTypoFrom(tokens, a, b, mint, 1, <<>>)

\* the rewrite with only the first occurrence of the pair replaced
RECURSIVE RewriteFirstFrom(_, _, _, _, _, _, _)
RewriteFirstFrom(tokens, a, b, mint, idx, new_encoding, done) ==
    IF idx < Len(tokens)
    THEN IF ~done /\ a = tokens[idx] /\ b = tokens[idx + 1]
         THEN RewriteFirstFrom(tokens, a, b, mint, idx + 2,
                               Append(new_encoding, mint), TRUE)
         ELSE RewriteFirstFrom(tokens, a, b, mint, idx + 1,
                               Append(new_encoding, tokens[idx]), done)
    ELSE IF idx <= Len(tokens) THEN Append(new_encoding, tokens[idx])
         ELSE new_encoding

RewriteFirstOnly(tokens, a, b, mint) ==
    RewriteFirstFrom(tokens, a, b, mint, 1, <<>>, FALSE)

\* the rewrite without line 60: a last symbol left unpaired is not copied
RECURSIVE RewriteDropFrom(_, _, _, _, _, _)
RewriteDropFrom(tokens, a, b, mint, idx, new_encoding) ==
    IF idx < Len(tokens)
    THEN IF a = tokens[idx] /\ b = tokens[idx + 1]
         THEN RewriteDropFrom(tokens, a, b, mint, idx + 2,
                              Append(new_encoding, mint))
         ELSE RewriteDropFrom(tokens, a, b, mint, idx + 1,
                              Append(new_encoding, tokens[idx]))
    ELSE new_encoding

RewriteDropLast(tokens, a, b, mint) ==
    RewriteDropFrom(tokens, a, b, mint, 1, <<>>)

Rewrite(tokens, a, b, mint) == RewriteFrom(tokens, a, b, mint, 1, <<>>)

\* the builtin max of a non-empty list of ids
MaxOf(s) == CHOOSE m \in {s[i] : i \in DOMAIN s} : \A i \in DOMAIN s : s[i] <= m

\* the stop test with the "+ 1" left out
FinishedNoIncrement(stream, vocab_size) == MaxOf(stream) = vocab_size

\* line 69: the value swap_top returns after a merge
Finished(stream, vocab_size) == MaxOf(stream) + 1 = vocab_size


\* ------------------------------------------------------- Tokenizer.encode

\* dict.get(key, None) followed by "if value:": absent and 0 are both falsy
Truthy(m, k) == k \in DOMAIN m /\ m[k] # 0

\* lines 136-149: one pass of the while loop of encode over decoded_tokens;
\* encoded is the flag the pass leaves for the loop test
RECURSIVE EncodePassFrom(_, _, _, _, _)
EncodePassFrom(map, decoded_tokens, idx, out, encoded) ==
    IF idx < Len(decoded_tokens)
    THEN LET tp == TokenPair(decoded_tokens[idx], decoded_tokens[idx + 1])
         IN  IF Truthy(map, _key(tp))
             THEN EncodePassFrom(map, decoded_tokens, idx + 2,
                                 Append(out, map[_key(tp)]), FALSE)
             ELSE EncodePassFrom(map, decoded_tokens, idx + 1,
                                 Append(out, tp.first_token), encoded)
    ELSE [tokens  |-> IF idx <= Len(decoded_tokens)
                      THEN Append(out, decoded_tokens[idx]) ELSE out,
          encoded |-> encoded]

\* a pass of encode that steps over one symbol, not two, after a merge
RECURSIVE EncodePassOverlapFrom(_, _, _, _, _)
EncodePassOverlapFrom(map, decoded_tokens, idx, out, encoded) ==
    IF idx < Len(decoded_tokens)
    THEN LET tp == TokenPair(decoded_tokens[idx], decoded_tokens[idx + 1])
         IN  IF Truthy(map, _key(tp))
             THEN EncodePassOverlapFrom(map, decoded_tokens, idx + 1,
                                        Append(out, map[_key(tp)]), FALSE)
             ELSE EncodePassOverlapFrom(map, decoded_tokens, idx + 1,
                                        Append(out, tp.first_token), encoded)
    ELSE [tokens  |-> IF idx <= Len(decoded_tokens)
                      THEN Append(out, decoded_tokens[idx]) ELSE out,
          encoded |-> encoded]

EncodePassOverlap(map, decoded_tokens) ==
    EncodePassOverlapFrom(map, decoded_tokens, 1, <<>>, TRUE)

EncodePass(map, decoded_tokens) ==
    EncodePassFrom(map, decoded_tokens, 1, <<>>, TRUE)

\* encode with raw_tokens=True: passes until one merges nothing
RECURSIVE Encode(_, _)
Encode(map, decoded_tokens) ==
    LET pass == EncodePass(map, decoded_tokens)
    IN  IF pass.encoded THEN pass.tokens ELSE Encode(map, pass.tokens)

\* ------------------------------------------------------- Tokenizer.decode

\* lines 114-124: one pass of the while loop of decode over encoded_tokens
RECURSIVE DecodePassFrom(_, _, _, _, _)
DecodePassFrom(map, toks, i, out, decoded) ==
    IF i > Len(toks) THEN [tokens |-> out, decoded |-> decoded]
    ELSE IF toks[i] \in DOMAIN map
         THEN DecodePassFrom(map, toks, i + 1,
                  Append(Append(out, map[toks[i]].first_token),
                         map[toks[i]].second_token), FALSE)
         ELSE DecodePassFrom(map, toks, i + 1, Append(out, toks[i]), decoded)

\* a pass of decode that never clears its decoded flag
DecodePassOnce(map, toks) ==
    [tokens |-> DecodePassFrom(map, toks, 1, <<>>, TRUE).tokens,
     decoded |-> TRUE]

\* a pass of decode that appends the two halves of a pair in the wrong order
RECURSIVE DecodePassSwappedFrom(_, _, _, _, _)
DecodePassSwappedFrom(map, toks, i, out, decoded) ==
    IF i > Len(toks) THEN [tokens |-> out, decoded |-> decoded]
    ELSE IF toks[i] \in DOMAIN map
         THEN DecodePassSwappedFrom(map, toks, i + 1,
                  Append(Append(out, map[toks[i]].second_token),
                         map[toks[i]].first_token), FALSE)
         ELSE DecodePassSwappedFrom(map, toks, i + 1, Append(out, toks[i]),
                                    decoded)

DecodePassSwapped(map, toks) == DecodePassSwappedFrom(map, toks, 1, <<>>, TRUE)

DecodePass(map, toks) == DecodePassFrom(map, toks, 1, <<>>, TRUE)

\* decode with raw_tokens=True: passes until one expands nothing
RECURSIVE Decode(_, _)
Decode(map, toks) ==
    LET pass == DecodePass(map, toks)
    IN  IF pass.decoded THEN pass.tokens ELSE Decode(map, pass.tokens)

\* --------------------------------------------------- persistence (pickle)

\* an optional constructor argument: <<>> is None, <<v>> is the value v
None == <<>>

\* Tokenizer._filename; "if self.path_prefix" is false for None and for ""
Filename(name, path_prefix) ==
    LET res == "tokenizer_" \o name \o ".pickle"
    IN  IF path_prefix # None /\ path_prefix[1] # ""
        THEN path_prefix[1] \o res
        ELSE res

RECURSIVE Ascending(_)
Ascending(S) ==
    IF S = {} THEN <<>>
    ELSE LET m == CHOOSE x \in S : \A y \in S : x <= y
         IN  <<m>> \o Ascending(S \ {m})

\* the keys of the two dicts in insertion order, which is minting order
DecodingKeys(dm) == Ascending(DOMAIN dm)
EncodingKeys(em) ==
    LET ids == Ascending({em[k] : k \in DOMAIN em})
    IN  [i \in 1..Len(ids) |-> CHOOSE k \in DOMAIN em : em[k] = ids[i]]

\* pickle.dump writes a dict as the list of its items in iteration order
DumpDict(m, keys) == [i \in 1..Len(keys) |-> <<keys[i], m[keys[i]]>>]

\* pickle.load rebuilds the dict item by item, a later item replacing an
\* earlier one with the same key
RECURSIVE LoadDict(_)
LoadDict(items) ==
    IF items = <<>> THEN EmptyMap
    ELSE LET n == Len(items)
         IN  Put(LoadDict(SubSeq(items, 1, n - 1)), items[n][1], items[n][2])

\* a dump that leaves decoding_map out of the data dictionary
PickleEncodingOnly(em, dm) ==
    [encoding_map |-> DumpDict(em, EncodingKeys(em)),
     decoding_map |-> <<>>]

\* lines 90-97: the bytes save_to_file writes
Pickle(em, dm) ==
    [encoding_map |-> DumpDict(em, EncodingKeys(em)),
     decoding_map |-> DumpDict(dm, DecodingKeys(dm))]

\* save_to_file: open(..., 'wb') creates or truncates the file
SaveFile(files, filename, em, dm) == Put(files, filename, Pickle(em, dm))

\* load_from_file: open(..., 'rb') raises FileNotFoundError for a missing file
\* before either map is assigned
LoadFile(files, filename, em, dm) ==
    IF filename \in DOMAIN files
    THEN [raised |-> FALSE,
          encoding_map |-> LoadDict(files[filename].encoding_map),
          decoding_map |-> LoadDict(files[filename].decoding_map)]
    ELSE [raised |-> TRUE, encoding_map |-> em, decoding_map |-> dm]

\* the arguments a second Tokenizer is constructed with
Names == {"tinyshakespeare", "wiki"}
PathPrefixes == {None, <<"">>, <<"ckpt/">>}

VARIABLES
    pc,                   \* where the caller is
    tokens,               \* _original_tokens
    encoding_vocab_size,
    encoded_tokens,
    mint_token,
    tcounts,
    decoding_map,
    encoding_map,
    call,                 \* the codec call the caller makes after train()
    arg,                  \* the argument of that call
    work,                 \* the list the running encode or decode loop holds
    name,
    path_prefix,
    files,                \* the file system: filename -> pickled content
    fresh                 \* the second Tokenizer, which loads the artifact

tokenizer == <<tokens, encoding_vocab_size, encoded_tokens, mint_token, tcounts,
               decoding_map, encoding_map, name, path_prefix>>
codec == <<call, arg, work>>
vars == <<pc, tokenizer, codec, files, fresh>>

\* a Tokenizer as __init__ leaves it, as far as persistence reads it
NewTokenizer(n, p) ==
    [name |-> n, path_prefix |-> p, encoding_map |-> EmptyMap,
     decoding_map |-> EmptyMap]

\* what a caller passes to encode: raw sequences, and the training input
EncodeInputs == SeqsUpTo(Alphabet, MaxCodecLen) \cup {tokens}

\* what a caller passes to decode directly: raw and minted ids, and the
\* stream train() returned
DecodeInputs ==
    SeqsUpTo(Alphabet \cup DOMAIN decoding_map, MaxDecLen) \cup {encoded_tokens}

\* Tokenizer.__init__ with raw_tokens=True and the default name and
\* path_prefix, then the caller enters train(); no file exists yet, and fresh
\* stands for a second tokenizer that LoadFromFile constructs anew
Init ==
    /\ pc = "train"
    /\ tokens \in TrainInputs
    /\ encoding_vocab_size \in Targets
    /\ encoded_tokens = tokens
    /\ mint_token = RawLimit
    /\ tcounts = Count(tokens)
    /\ decoding_map = EmptyMap
    /\ encoding_map = EmptyMap
    /\ call = "none"
    /\ arg = <<>>
    /\ work = <<>>
    /\ name = "tinyshakespeare"
    /\ path_prefix = None
    /\ files = EmptyMap
    /\ fresh = NewTokenizer(name, path_prefix)

\* one call of swap_top made by train(); train returns when it returns True,
\* and the ValueError of max() on an empty table leaves train() by exception
SwapTop ==
    /\ pc = "train"
    /\ IF tcounts = <<>>
       THEN /\ pc' = "ValueError"
            /\ UNCHANGED <<encoded_tokens, mint_token, tcounts, decoding_map,
                           encoding_map>>
       ELSE \E top_tp \in {GetMostCommon(tcounts)} :
            IF top_tp.frequency = 1
            THEN /\ pc' = "done"
                 /\ UNCHANGED <<encoded_tokens, mint_token, tcounts,
                                decoding_map, encoding_map>>
            ELSE \E new_encoding \in {Rewrite(encoded_tokens, top_tp.first_token,
                                              top_tp.second_token, mint_token)} :
                     /\ encoded_tokens' = new_encoding
                     /\ decoding_map' = Put(decoding_map, mint_token, top_tp)
                     /\ encoding_map' = Put(encoding_map, _key(top_tp), mint_token)
                     /\ mint_token' = mint_token + 1
                     /\ tcounts' = Count(new_encoding)
                     /\ pc' = IF Finished(new_encoding, encoding_vocab_size)
                              THEN "done" ELSE "train"
    /\ UNCHANGED <<tokens, encoding_vocab_size, name, path_prefix, codec, files,
                   fresh>>

\* the caller calls encode(x) on the trained tokenizer
EncodeCall ==
    /\ pc = "done"
    /\ \E x \in EncodeInputs :
          /\ arg' = x
          /\ work' = x
    /\ call' = "encode"
    /\ pc' = "encode"
    /\ UNCHANGED <<tokenizer, files, fresh>>

\* one iteration of the while loop of encode
EncodeStep ==
    /\ pc = "encode"
    /\ LET pass == EncodePass(encoding_map, work)
       IN  /\ work' = pass.tokens
           /\ pc' = IF pass.encoded THEN "encoded" ELSE "encode"
    /\ UNCHANGED <<tokenizer, call, arg, files, fresh>>

\* the caller passes the result of encode to decode
DecodeEncoded ==
    /\ pc = "encoded"
    /\ call' = "roundtrip"
    /\ pc' = "decode"
    /\ UNCHANGED <<tokenizer, arg, work, files, fresh>>

\* the caller calls decode(y) on a symbol sequence of its own
DecodeCall ==
    /\ pc = "done"
    /\ \E y \in DecodeInputs :
          /\ arg' = y
          /\ work' = y
    /\ call' = "decode"
    /\ pc' = "decode"
    /\ UNCHANGED <<tokenizer, files, fresh>>

\* one iteration of the while loop of decode
DecodeStep ==
    /\ pc = "decode"
    /\ LET pass == DecodePass(decoding_map, work)
       IN  /\ work' = pass.tokens
           /\ pc' = IF pass.decoded THEN "decoded" ELSE "decode"
    /\ UNCHANGED <<tokenizer, call, arg, files, fresh>>

\* the trained tokenizer writes its artifact
SaveToFile ==
    /\ pc = "done"
    /\ files' = SaveFile(files, Filename(name, path_prefix), encoding_map,
                         decoding_map)
    /\ call' = "save"
    /\ pc' = "saved"
    /\ UNCHANGED <<tokenizer, arg, work, fresh>>

\* a second Tokenizer is constructed and calls load_from_file
LoadFromFile ==
    /\ pc \in {"done", "saved"}
    /\ \E n \in Names, p \in PathPrefixes :
          LET t == NewTokenizer(n, p)
              r == LoadFile(files, Filename(n, p), t.encoding_map, t.decoding_map)
          IN  /\ fresh' = [t EXCEPT !.encoding_map = r.encoding_map,
                                    !.decoding_map = r.decoding_map]
              /\ pc' = IF r.raised THEN "FileNotFoundError" ELSE "loaded"
    /\ call' = "load"
    /\ UNCHANGED <<tokenizer, arg, work, files>>

\* the trained tokenizer itself calls load_from_file
Reload ==
    /\ pc \in {"done", "saved"}
    /\ LET r == LoadFile(files, Filename(name, path_prefix), encoding_map,
                         decoding_map)
       IN  /\ encoding_map' = r.encoding_map
           /\ decoding_map' = r.decoding_map
           /\ pc' = IF r.raised THEN "FileNotFoundError" ELSE "loaded"
    /\ call' = "reload"
    /\ UNCHANGED <<tokens, encoding_vocab_size, encoded_tokens, mint_token,
                   tcounts, name, path_prefix, arg, work, files, fresh>>

Next ==
    \/ SwapTop
    \/ SaveToFile
    \/ LoadFromFile
    \/ Reload
    \/ EncodeCall
    \/ EncodeStep
    \/ DecodeEncoded
    \/ DecodeCall
    \/ DecodeStep

Spec == Init /\ [][Next]_vars

\* the loops of train, encode and decode run on once entered
FairSpec ==
    Spec /\ WF_vars(SwapTop) /\ WF_vars(EncodeStep) /\ WF_vars(DecodeStep)

\* ------------------------------------------------------------------ claims

IsRaw(s) == \A i \in DOMAIN s : s[i] < RawLimit

\* C1: when decode has finished on the result of encode(x), for a raw x and
\* the maps train() left, the list it returns is x itself, and so is the
\* composition of the two functions on every input a caller may pass.
RoundTrip ==
    /\ (pc = "decoded" /\ call = "roundtrip") => work = arg
    /\ pc = "done" =>
         \A x \in EncodeInputs :
             Decode(decoding_map, Encode(encoding_map, x)) = x

\* a round trip whose encode merged something
RoundTripWitness ==
    /\ pc = "decoded"
    /\ call = "roundtrip"
    /\ IsRaw(arg)
    /\ Len(Encode(encoding_map, arg)) < Len(arg)
    /\ work = arg

\* C2 as claimed: once train() has returned, encode of the training input
\* is the stream training ended with.
EncodeReproducesTraining ==
    pc = "done" => Encode(encoding_map, tokens) = encoded_tokens

\* every pair learned after the first contains the id minted just before it
ChainedMerges ==
    \A s \in DOMAIN decoding_map :
        s > RawLimit => \/ decoding_map[s].first_token = s - 1
                        \/ decoding_map[s].second_token = s - 1

\* C2 amended: once train() has returned, encode of the training input is
\* the stream training ended with, provided every pair learned after the
\* first contains the id minted by the step before it.
EncodeReproducesChainedTraining ==
    (pc = "done" /\ ChainedMerges) =>
        Encode(encoding_map, tokens) = encoded_tokens

\* the scenario of the specification, trained to 258: two chained merges
ChainedTrainingWitness ==
    /\ pc = "done"
    /\ tokens = ScenarioInput
    /\ mint_token = RawLimit + 2
    /\ ChainedMerges
    /\ Encode(encoding_map, tokens) = encoded_tokens
    /\ encoded_tokens = <<257, 98, 100, 257, 98, 97, 99>>

\* C3 as claimed: with a target of 256 or less nothing is ever minted and
\* the stream stays the training input.
NoMintingAtOrBelowRawLimit ==
    encoding_vocab_size <= RawLimit =>
        /\ encoding_map = EmptyMap
        /\ decoding_map = EmptyMap
        /\ encoded_tokens = tokens

RECURSIVE SetMax(_)
SetMax(S) ==
    LET x == CHOOSE y \in S : TRUE
    IN  IF S = {x} THEN x
        ELSE LET m == SetMax(S \ {x}) IN IF x > m THEN x ELSE m

\* C4 as claimed: max(keys of decode_map united with {255}) + 1 is at most
\* the target vocabulary size, in every state.
VocabularyBound ==
    SetMax(DOMAIN decoding_map \cup {RawLimit - 1}) + 1 <= encoding_vocab_size

\* C5 as claimed: training on fewer than 2 symbols ends with no error, the
\* stream and both maps untouched; encode and decode return a sequence of 0
\* or 1 raw symbols unchanged.
TooShortIsNoOp ==
    Len(tokens) < 2 =>
        /\ pc # "ValueError"
        /\ encoded_tokens = tokens
        /\ encoding_map = EmptyMap
        /\ decoding_map = EmptyMap
        /\ \A x \in SeqsUpTo(Alphabet, 1) :
               /\ Encode(encoding_map, x) = x
               /\ Decode(decoding_map, x) = x

\* C6: encoding_map and decoding_map are inverse to each other, and the keys
\* of decoding_map are exactly 256 .. mint_token - 1.
MergeTableConsistent ==
    /\ \A p \in DOMAIN encoding_map :
           /\ encoding_map[p] \in DOMAIN decoding_map
           /\ _key(decoding_map[encoding_map[p]]) = p
    /\ \A t \in DOMAIN decoding_map :
           /\ _key(decoding_map[t]) \in DOMAIN encoding_map
           /\ encoding_map[_key(decoding_map[t])] = t
    /\ DOMAIN decoding_map = RawLimit..(mint_token - 1)

\* three merges have been recorded
MergeTableWitness ==
    /\ mint_token = RawLimit + 3
    /\ Cardinality(DOMAIN encoding_map) = 3
    /\ Cardinality(DOMAIN decoding_map) = 3

\* the adjacent pairs of a stream, counted position by position
PairAt(s, i) == <<s[i], s[i + 1]>>
Pairs(s) == {PairAt(s, i) : i \in 1..(Len(s) - 1)}
Occurrences(s, p) == Cardinality({i \in 1..(Len(s) - 1) : PairAt(s, i) = p})
FirstPosition(s, p) ==
    CHOOSE i \in 1..(Len(s) - 1) :
        PairAt(s, i) = p /\ \A j \in 1..(i - 1) : PairAt(s, j) # p

\* the pair of maximal count whose first occurrence is leftmost
LeftmostMaxPair(s) ==
    CHOOSE p \in Pairs(s) :
        \A q \in Pairs(s) :
            /\ Occurrences(s, q) <= Occurrences(s, p)
            /\ Occurrences(s, q) = Occurrences(s, p) =>
                   FirstPosition(s, p) <= FirstPosition(s, q)

\* C7: tcounts holds, for each adjacent pair of the stream, the number of
\* positions i, i+1 it occupies; get_most_common returns a pair of maximal
\* count, and of the pairs of maximal count the one that occurs first; the
\* first merge of training is of that pair of the training input.
MostCommonIsLeftmostMax ==
    /\ mint_token > RawLimit =>
           _key(decoding_map[RawLimit]) = LeftmostMaxPair(tokens)
    /\ Len(encoded_tokens) >= 2 =>
        LET s   == encoded_tokens
            top == GetMostCommon(tcounts)
        IN  /\ {_key(tcounts[j]) : j \in DOMAIN tcounts} = Pairs(s)
            /\ Len(tcounts) = Cardinality(Pairs(s))
            /\ \A j \in DOMAIN tcounts :
                   tcounts[j].frequency = Occurrences(s, _key(tcounts[j]))
            /\ _key(top) \in Pairs(s)
            /\ top.frequency = Occurrences(s, _key(top))
            /\ \A p \in Pairs(s) :
                   /\ Occurrences(s, p) <= top.frequency
                   /\ Occurrences(s, p) = top.frequency =>
                          FirstPosition(s, _key(top)) <= FirstPosition(s, p)

\* the first merge was of a pair that tied for the maximum with a pair seen
\* later, and was not the first pair counted
MostCommonTieWitness ==
    /\ mint_token > RawLimit
    /\ LET tc  == Count(tokens)
           top == decoding_map[RawLimit]
       IN  /\ _key(top) # _key(tc[1])
           /\ \E j \in DOMAIN tc :
                  /\ _key(tc[j]) # _key(top)
                  /\ tc[j].frequency = top.frequency
                  /\ FirstPosition(tokens, _key(top))
                         < FirstPosition(tokens, _key(tc[j]))

\* C8: a tokenizer that loaded the artifact holds the maps that were saved,
\* so encode and decode agree with the saving tokenizer on every input; a
\* tokenizer of the same name and path prefix finds the artifact once it is
\* saved; and a load that raises FileNotFoundError leaves the maps of the
\* tokenizer that called it as they were.
PersistenceRoundTrip ==
    /\ []((pc = "loaded" /\ call = "load") =>
            /\ fresh.encoding_map = encoding_map
            /\ fresh.decoding_map = decoding_map
            /\ \A x \in EncodeInputs :
                   Encode(fresh.encoding_map, x) = Encode(encoding_map, x)
            /\ \A y \in DecodeInputs :
                   Decode(fresh.decoding_map, y) = Decode(decoding_map, y))
    /\ []((call = "load" /\ files # EmptyMap /\ fresh.name = name
              /\ fresh.path_prefix = path_prefix) => pc = "loaded")
    /\ [][pc' = "FileNotFoundError" =>
            /\ encoding_map' = encoding_map
            /\ decoding_map' = decoding_map
            /\ call' = "load" =>
                   fresh' = NewTokenizer(fresh'.name, fresh'.path_prefix)]_vars

\* a second tokenizer of the same name loaded a table of two merges
PersistenceWitness ==
    /\ pc = "loaded"
    /\ call = "load"
    /\ fresh.name = name
    /\ fresh.path_prefix = path_prefix
    /\ Cardinality(DOMAIN fresh.decoding_map) = 2
    /\ fresh.decoding_map = decoding_map

\* C9: every merging swap_top step leaves the stream strictly shorter and
\* at least 2 symbols long, and train() on an input of at least 2 symbols
\* returns.
TrainingTerminates ==
    /\ [][(pc = "train" /\ mint_token' # mint_token) =>
            /\ Len(encoded_tokens') < Len(encoded_tokens)
            /\ Len(encoded_tokens') >= 2]_vars
    /\ ((pc = "train" /\ Len(tokens) >= 2) ~> pc = "done")

\* train() returned after two merges under a target its stop test never meets
TrainingTerminatesWitness ==
    /\ pc = "done"
    /\ encoding_vocab_size = RawLimit
    /\ mint_token >= RawLimit + 2
    /\ ~Finished(encoded_tokens, encoding_vocab_size)

\* C10: both halves of a decoding_map entry are below its key; decode stops;
\* what it returns holds no key of decoding_map and only ids below 256; and
\* a raw argument comes back unchanged.
DecodeExpands ==
    /\ [](\A t \in DOMAIN decoding_map :
              /\ decoding_map[t].first_token < t
              /\ decoding_map[t].second_token < t)
    /\ [](pc = "decoded" =>
              \A i \in DOMAIN work :
                  work[i] \notin DOMAIN decoding_map /\ work[i] < RawLimit)
    /\ []((pc = "decoded" /\ call = "decode" /\ IsRaw(arg)) => work = arg)
    /\ (pc = "decode" ~> pc = "decoded")

\* decode of a single id minted from a minted id took more than one pass
DecodeExpandsWitness ==
    /\ pc = "decoded"
    /\ call = "decode"
    /\ Len(arg) = 1
    /\ arg[1] > RawLimit
    /\ Len(work) >= 3

\* train() has returned normally (the caller may have gone on since)
Trained == pc \notin {"train", "ValueError"}

\* C11: after every merge the highest symbol of the stream is the id just
\* minted; so, for a target of 257 or more, training never merges past the
\* target, goes on while it is below it and a pair repeats, and returns
\* either with exactly target - 256 merges or, with fewer, because the most
\* frequent pair has count 1.
StopConditionExact ==
    /\ mint_token > RawLimit => MaxOf(encoded_tokens) = mint_token - 1
    /\ encoding_vocab_size > RawLimit =>
           /\ mint_token <= encoding_vocab_size
           /\ (pc = "train" /\ mint_token > RawLimit) =>
                  mint_token < encoding_vocab_size
           /\ Trained =>
                  \/ mint_token = encoding_vocab_size
                  \/ GetMostCommon(tcounts).frequency = 1

\* train() returned after exactly target - 256 = 2 merges while a pair of
\* the stream still repeats: the stop test, not the count, ended it
StopConditionWitness ==
    /\ pc = "done"
    /\ encoding_vocab_size = RawLimit + 2
    /\ mint_token = encoding_vocab_size
    /\ MaxOf(encoded_tokens) = mint_token - 1
    /\ GetMostCommon(tcounts).frequency >= 2

\* C12: in every state, during and after training, expanding the stream
\* through decoding_map gives the training input back, and the pair merged
\* last occurs nowhere in the stream.
TrainingLossless ==
    /\ Decode(decoding_map, encoded_tokens) = tokens
    /\ mint_token > RawLimit =>
           _key(decoding_map[mint_token - 1]) \notin Pairs(encoded_tokens)

\* train() is between two swap_top calls, two merges done, one of them of a
\* pair of equal symbols that overlapped itself in the input
TrainingLosslessWitness ==
    /\ pc = "train"
    /\ mint_token = RawLimit + 2
    /\ Len(encoded_tokens) < Len(tokens)
    /\ \E t \in DOMAIN decoding_map :
           /\ decoding_map[t].first_token = decoding_map[t].second_token
           /\ \E i \in 1..(Len(tokens) - 2) :
                  /\ tokens[i] = decoding_map[t].first_token
                  /\ tokens[i + 1] = tokens[i]
                  /\ tokens[i + 2] = tokens[i]
    /\ Decode(decoding_map, encoded_tokens) = tokens

=============================================================================
